---------------------------- MODULE Spec2Model ----------------------------
(***************************************************************************)
(* Model of src/downloader.py: discovery of candidate download links on    *)
(* the project pages and the per-candidate download cascade                *)
(* (gdown -> wget -> streaming requests fetch).                            *)
(*                                                                         *)
(* A URL is a record of the parts the code inspects:                       *)
(*   scheme  the URL scheme ("https", "mailto", ...)                       *)
(*   host    the network location                                          *)
(*   path    the sequence of path segments; a segment is a file name, a    *)
(*           sequence of its dot-separated parts (<<"real","zip">>)        *)
(*   query   the sequence of key/value pairs of the query string; a value  *)
(*           is a name like a path segment (v, <<>> is a blank value)      *)
(*           after the directory components it is written with (dirs:      *)
(*           <<"..">> for "../evil.zip", <<"/", "etc">> for "/etc/x")      *)
(*   qlen    len(urlparse(u).query), the character length of the query     *)
(* The words of the modelled URLs are lower-case where a rule lower-cases   *)
(* them, and a substring test is modelled as a test on whole words.        *)
(* URLs are identified by their index in URLS, which lists them in the     *)
(* order of Python's string comparison, so sorted() is the index order.    *)
(***************************************************************************)
EXTENDS Integers, Sequences, FiniteSets, TLC

\* ------------------------------------------------------------- bounds ---
\* number of seed pages of PROJECT_PAGES that are modelled
NumPages == 2
\* longest --direct URL list that is modelled
MaxDirect == 2

None == <<"None">>

\* ------------------------------------------------------- URL universe ---
URLS ==
  << \* 1 https://docs.google.com/uc?id=XYZ789
     [scheme |-> "https", host |-> "docs.google.com",
      path |-> << <<"uc">> >>,
      query |-> << [k |-> "id", dirs |-> <<>>, v |-> <<"XYZ789">>] >>,
      qlen |-> 9],
     \* 2 https://drive.google.com/drive/my-drive
     [scheme |-> "https", host |-> "drive.google.com",
      path |-> << <<"drive">>, <<"my-drive">> >>, query |-> <<>>, qlen |-> 0],
     \* 3 https://drive.google.com/file/d/ABC123/view
     [scheme |-> "https", host |-> "drive.google.com",
      path |-> << <<"file">>, <<"d">>, <<"ABC123">>, <<"view">> >>,
      query |-> <<>>, qlen |-> 0],
     \* 4 https://drive.google.com/uc?id=XYZ789&foo=bar
     [scheme |-> "https", host |-> "drive.google.com",
      path |-> << <<"uc">> >>,
      query |-> << [k |-> "id", dirs |-> <<>>, v |-> <<"XYZ789">>],
                   [k |-> "foo", dirs |-> <<>>, v |-> <<"bar">>] >>,
      qlen |-> 17],
     \* 5 https://host.example/data/real.zip
     [scheme |-> "https", host |-> "host.example",
      path |-> << <<"data">>, <<"real", "zip">> >>, query |-> <<>>, qlen |-> 0],
     \* 6 https://host.example/get?filename=../evil.zip
     [scheme |-> "https", host |-> "host.example",
      path |-> << <<"get">> >>,
      query |-> << [k |-> "filename", dirs |-> <<"..">>,
                    v |-> <<"evil", "zip">>] >>,
      qlen |-> 20],
     \* 7 https://host.example/index.html
     [scheme |-> "https", host |-> "host.example",
      path |-> << <<"index", "html">> >>, query |-> <<>>, qlen |-> 0],
     \* 8 https://mirror.example/pub/real.zip
     [scheme |-> "https", host |-> "mirror.example",
      path |-> << <<"pub">>, <<"real", "zip">> >>, query |-> <<>>, qlen |-> 0],
     \* 9 https://s3.amazonaws.com/bucket/
     [scheme |-> "https", host |-> "s3.amazonaws.com",
      path |-> << <<"bucket">>, <<>> >>, query |-> <<>>, qlen |-> 0],
     \* 10 mailto:me@x.com
     [scheme |-> "mailto", host |-> "",
      path |-> << <<"me@x", "com">> >>, query |-> <<>>, qlen |-> 0] >>

UrlIds == 1..Len(URLS)

\* ---------------------------------------------------------- utilities ---
Range(s) == {s[i] : i \in 1..Len(s)}

\* sorted(set): the ascending sequence of a set of URL indices
RECURSIVE SortedSeq(_)
SortedSeq(S) ==
  IF S = {} THEN <<>>
  ELSE LET m == CHOOSE x \in S : \A y \in S : x <= y
       IN <<m>> \o SortedSeq(S \ {m})

\* the words of a URL string a substring test can hit: host, dot-parts of the
\* path segments, query keys and dot-parts of the query values
UrlWords(u) ==
  {u.host}
  \cup UNION {Range(u.path[i]) : i \in 1..Len(u.path)}
  \cup {u.query[i].k : i \in 1..Len(u.query)}
  \cup UNION {Range(u.query[i].v) : i \in 1..Len(u.query)}
  \cup UNION {Range(u.query[i].dirs) : i \in 1..Len(u.query)}

\* "drive.google.com" in url or "docs.google.com" in url
is_google_drive(u) ==
  "drive.google.com" \in UrlWords(u) \/ "docs.google.com" \in UrlWords(u)

\* parse_qs(query)[key][0]; parse_qs drops blank values, so a key with only
\* blank values is not in the dict
qs_values(u, key) ==
  SelectSeq(u.query, LAMBDA kv : kv.k = key /\ (kv.v # <<>> \/ kv.dirs # <<>>))

qs_has(u, key) == qs_values(u, key) # <<>>

qs_first(u, key) == qs_values(u, key)[1].v

\* re.search(r"/d/([a-zA-Z0-9_-]+)", url): a path segment "d" followed by a
\* segment that starts with identifier characters; the match ends at the
\* first "." of that segment
DSegments(u) ==
  {i \in 1..(Len(u.path) - 1) :
     u.path[i] = <<"d">> /\ u.path[i + 1] # <<>> /\ u.path[i + 1][1] # ""}

extract_drive_id(u) ==
  IF DSegments(u) # {}
  THEN LET i == CHOOSE x \in DSegments(u) : \A y \in DSegments(u) : x <= y
       IN <<u.path[i + 1][1]>>
  ELSE IF qs_has(u, "id") THEN qs_first(u, "id")
  ELSE None

\* os.path.basename(parsed.path): the last path segment, empty when the path
\* is empty or ends with "/"
basename(u) == IF u.path = <<>> THEN <<>> ELSE u.path[Len(u.path)]

\* lines 169-173: filename, as the directory components it is written with
\* and its last component
filename(u) ==
  IF qs_has(u, "filename")
  THEN [dirs |-> qs_values(u, "filename")[1].dirs, name |-> qs_first(u, "filename")]
  ELSE IF basename(u) # <<>> THEN [dirs |-> <<>>, name |-> basename(u)]
  ELSE [dirs |-> <<>>, name |-> <<"downloaded_file">>]

\* line 174: out_path = os.path.join(outdir, filename), as the directory the
\* path names and the file name in it; join drops outdir when filename is
\* absolute and keeps ".." components as they are
out_path(u) ==
  LET fn == filename(u) IN
    [dir  |-> IF fn.dirs # <<>> /\ fn.dirs[1] = "/"
              THEN fn.dirs
              ELSE <<"outdir">> \o fn.dirs,
     name |-> fn.name]

\* ----------------------------------------------------------- scraping ---
\* a page fetch (requests.get + raise_for_status) either fails or returns a
\* body; a body is the set of hrefs of its anchors, already absolute
FetchFailures == {"network_error", "http_error"}

PageBodies == { {1, 7, 10}, {3, 6, 10}, {2, 5, 8}, {4, 9} }

Responses ==
  [ok : {FALSE}, err : FetchFailures, hrefs : {{}}]
  \cup [ok : {TRUE}, err : {"none"}, hrefs : PageBodies]

\* find_links_on_page without the try/except around the fetch
find_links_on_page_NoExcept(resp) ==
  IF ~resp.ok
  THEN [raised |-> TRUE, links |-> <<>>]
  ELSE [raised |-> FALSE,
        links |-> SortedSeq({h \in resp.hrefs :
                               URLS[h].scheme \notin {"mailto", "javascript"}})]

\* lines 107-129: [raised, links]; raised is TRUE when an exception leaves
\* the function
find_links_on_page(resp) ==
  IF ~resp.ok
  THEN [raised |-> FALSE, links |-> <<>>]
  ELSE [raised |-> FALSE,
        links |-> SortedSeq({h \in resp.hrefs :
                               URLS[h].scheme \notin {"mailto", "javascript"}})]

\* the last name of the URL string, where the "$" of the extension regex
\* anchors: the last query value when there is a query, else the last segment
UrlTail(u) ==
  IF u.query # <<>> THEN u.query[Len(u.query)].v ELSE basename(u)

SingleExts == {"zip", "tar", "7z", "mp4", "mkv", "bin", "tgz"}

\* re.search(r"\.(zip|tar\.gz|tar|7z|mp4|mkv|bin|tgz|tar\.bz2)$", lower)
HasArchiveExt(u) ==
  LET t == UrlTail(u) IN
    \/ Len(t) >= 2 /\ t[Len(t)] \in SingleExts
    \/ Len(t) >= 3 /\ t[Len(t) - 1] = "tar" /\ t[Len(t)] \in {"gz", "bz2"}

\* lines 139-153, the rules in order
IsCandidate(u) ==
  \/ HasArchiveExt(u)
  \/ UrlWords(u) \cap {"drive.google.com", "kaggle.com", "dropbox.com",
                       "pan.baidu.com"} # {}
  \/ UrlWords(u) \cap {"s3.amazonaws.com", "storage.googleapis.com",
                       "box.com"} # {}
  \/ /\ u.qlen > 20
     /\ \/ "download" \in UrlWords(u)
        \/ \E i \in 1..Len(u.query) : u.query[i].k = "id"

\* lines 131-154: sorted(set(candidates))
filter_candidate_download_links(links) ==
  SortedSeq({l \in Range(links) : IsCandidate(URLS[l])})

\* ------------------------------------------------------------ cascade ---
\* a missing drive id that falls through to the generic strategies
OnMissingDriveId_FallThrough == [pc |-> "wget", ok |-> FALSE]

\* lines 179-182: what try_download_link does when no drive id is found
OnMissingDriveId == [pc |-> "tdl_return", ok |-> FALSE]

\* the cascade with `except requests.HTTPError` around stream_download: an
\* error in the middle of the body is not caught
NextStep_NarrowExcept(strategy, outcome) ==
  CASE strategy = "gdown" /\ outcome = "success" ->
         [pc |-> "tdl_return", ok |-> TRUE]
    [] strategy = "gdown" /\ outcome \in {"capability_unavailable", "raised"} ->
         [pc |-> "tdl_return", ok |-> FALSE]
    [] strategy = "wget" /\ outcome = "success" ->
         [pc |-> "tdl_return", ok |-> TRUE]
    [] strategy = "wget" /\ outcome \in {"capability_unavailable", "nonzero_exit"} ->
         [pc |-> "stream", ok |-> FALSE]
    [] strategy = "stream" /\ outcome = "success" ->
         [pc |-> "tdl_return", ok |-> TRUE]
    [] strategy = "stream" /\ outcome = "http_error" ->
         [pc |-> "tdl_return", ok |-> FALSE]
    [] strategy = "stream" /\ outcome = "interrupted" ->
         [pc |-> "raise", ok |-> FALSE]

\* the cascade without the `return True` after a successful wget
NextStep_NoReturnAfterWget(strategy, outcome) ==
  CASE strategy = "gdown" /\ outcome = "success" ->
         [pc |-> "tdl_return", ok |-> TRUE]
    [] strategy = "gdown" /\ outcome \in {"capability_unavailable", "raised"} ->
         [pc |-> "tdl_return", ok |-> FALSE]
    [] strategy = "wget" ->
         [pc |-> "stream", ok |-> FALSE]
    [] strategy = "stream" /\ outcome = "success" ->
         [pc |-> "tdl_return", ok |-> TRUE]
    [] strategy = "stream" /\ outcome \in {"http_error", "interrupted"} ->
         [pc |-> "tdl_return", ok |-> FALSE]

\* lines 183-207: where try_download_link goes after a strategy ended with
\* `outcome`: on to a later strategy, back to the caller with True/False,
\* or out of the function with an uncaught exception ("raise")
NextStep(strategy, outcome) ==
  CASE strategy = "gdown" /\ outcome = "success" ->
         [pc |-> "tdl_return", ok |-> TRUE]
    [] strategy = "gdown" /\ outcome = "capability_unavailable" ->
         [pc |-> "tdl_return", ok |-> FALSE]
    [] strategy = "gdown" /\ outcome = "raised" ->
         [pc |-> "tdl_return", ok |-> FALSE]
    [] strategy = "wget" /\ outcome = "success" ->
         [pc |-> "tdl_return", ok |-> TRUE]
    [] strategy = "wget" /\ outcome = "capability_unavailable" ->
         [pc |-> "stream", ok |-> FALSE]
    [] strategy = "wget" /\ outcome = "nonzero_exit" ->
         [pc |-> "stream", ok |-> FALSE]
    [] strategy = "stream" /\ outcome = "success" ->
         [pc |-> "tdl_return", ok |-> TRUE]
    [] strategy = "stream" /\ outcome \in {"http_error", "interrupted"} ->
         [pc |-> "tdl_return", ok |-> FALSE]

\* the file names try_download_link can write
Filenames == {out_path(URLS[i]) : i \in UrlIds}

NoFile == [state |-> "absent", url |-> 0, via |-> "none"]

\* --------------------------------------------------------------- state ---
VARIABLES
  pc,          \* position of the process
  args,        \* parsed command line: [dry_run, direct]
  HAS_GDOWN,   \* whether `import gdown` succeeded
  hasWget,     \* whether shutil.which("wget") finds the tool
  outdirExists,\* whether safe_mkdir(outdir) has run
  found,       \* discover_download_links: candidates per fetched page
  links,       \* find_links_on_page: the links of each fetched page
  fetchFailed, \* pages whose fetch failed
  pos,         \* index of the current item of the download loop
  cur,         \* URL handed to try_download_link
  attempts,    \* strategies tried for cur: <<[strategy, outcome], ...>>
  result,      \* return value of try_download_link
  report,      \* the " -> OK/FAILED" lines printed so far
  fs           \* files of the output directory: name -> [state, url, via]

vars == <<pc, args, HAS_GDOWN, hasWget, outdirExists, found, links, fetchFailed,
          pos, cur, attempts, result, report, fs>>

DirectUrls == {2, 3, 5, 8}

RECURSIVE SeqsUpTo(_, _)
SeqsUpTo(S, n) ==
  IF n = 0 THEN {<<>>}
  ELSE LET shorter == SeqsUpTo(S, n - 1)
       IN shorter \cup {Append(s, x) : s \in shorter, x \in S}

Init ==
  /\ pc = "start"
  /\ args \in [dry_run : BOOLEAN, direct : SeqsUpTo(DirectUrls, MaxDirect)]
  /\ HAS_GDOWN \in BOOLEAN
  /\ hasWget \in BOOLEAN
  /\ outdirExists = FALSE
  /\ found = <<>>
  /\ links = <<>>
  /\ fetchFailed = {}
  /\ pos = 0
  /\ cur = 0
  /\ attempts = <<>>
  /\ result = FALSE
  /\ report = <<>>
  /\ fs = [f \in Filenames |-> NoFile]

\* the (page, link) pairs of `for page, links in discovered.items():
\* for link in links`, in iteration order
RECURSIVE Flatten(_, _)
Flatten(fnd, p) ==
  IF p > Len(fnd) THEN <<>>
  ELSE [i \in 1..Len(fnd[p]) |-> [page |-> p, url |-> fnd[p][i]]]
       \o Flatten(fnd, p + 1)

Worklist == Flatten(found, 1)

\* ---------------------------------------------------------- __main__ ---
\* lines 252-270: parse the arguments and pick direct mode or main()
Start ==
  /\ pc = "start"
  /\ IF args.direct # <<>>
     THEN /\ pc' = "direct_loop"
          /\ pos' = 1
          /\ UNCHANGED outdirExists
     ELSE /\ pc' = "discover"            \* main(): safe_mkdir(outdir)
          /\ outdirExists' = TRUE
          /\ UNCHANGED pos
  /\ UNCHANGED <<args, HAS_GDOWN, hasWget, found, links, fetchFailed, cur, attempts,
                 result, report, fs>>

\* lines 160-163: one iteration of discover_download_links
DiscoverPage ==
  /\ pc = "discover"
  /\ Len(found) < NumPages
  /\ \E resp \in Responses :
       LET p == Len(found) + 1
           r == find_links_on_page(resp)
       IN /\ fetchFailed' = IF resp.ok THEN fetchFailed ELSE fetchFailed \cup {p}
          /\ IF r.raised
             THEN /\ pc' = "crashed"
                  /\ UNCHANGED <<found, links>>
             ELSE /\ links' = Append(links, r.links)
                  /\ found' = Append(found, filter_candidate_download_links(r.links))
                  /\ pc' = IF p = NumPages THEN "summary" ELSE "discover"
  /\ UNCHANGED <<args, HAS_GDOWN, hasWget, outdirExists, pos, cur, attempts,
                 result, report, fs>>

\* lines 218-241: the summary, the total == 0 and the dry-run returns
Summary ==
  /\ pc = "summary"
  /\ IF Len(Worklist) = 0 THEN pc' = "done"
     ELSE IF args.dry_run THEN pc' = "done"
     ELSE pc' = "main_loop"
  /\ pos' = 1
  /\ UNCHANGED <<args, HAS_GDOWN, hasWget, outdirExists, found, links, fetchFailed,
                 cur, attempts, result, report, fs>>

\* lines 242-245: next link of the download loop, or line 250
MainLoop ==
  /\ pc = "main_loop"
  /\ IF pos <= Len(Worklist)
     THEN /\ cur' = Worklist[pos].url
          /\ attempts' = <<>>
          /\ pc' = "tdl_begin"
     ELSE /\ pc' = "done"
          /\ UNCHANGED <<cur, attempts>>
  /\ UNCHANGED <<args, HAS_GDOWN, hasWget, outdirExists, found, links, fetchFailed,
                 pos, result, report, fs>>

\* lines 261-264 and 268: next --direct URL, or sys.exit(0)
DirectLoop ==
  /\ pc = "direct_loop"
  /\ IF pos <= Len(args.direct)
     THEN /\ cur' = args.direct[pos]
          /\ attempts' = <<>>
          /\ pc' = "tdl_begin"
     ELSE /\ pc' = "done"
          /\ UNCHANGED <<cur, attempts>>
  /\ UNCHANGED <<args, HAS_GDOWN, hasWget, outdirExists, found, links, fetchFailed,
                 pos, result, report, fs>>

InDirectMode == args.direct # <<>>

\* lines 167-182: safe_mkdir, out_path, and the drive-id check
TryDownloadBegin ==
  /\ pc = "tdl_begin"
  /\ outdirExists' = TRUE
  /\ LET u == URLS[cur] IN
       IF is_google_drive(u)
       THEN IF extract_drive_id(u) = None
            THEN /\ pc' = OnMissingDriveId.pc
                 /\ result' = OnMissingDriveId.ok
            ELSE /\ pc' = "gdown"
                 /\ UNCHANGED result
       ELSE /\ pc' = "wget"
            /\ UNCHANGED result
  /\ UNCHANGED <<args, HAS_GDOWN, hasWget, found, links, fetchFailed, pos, cur,
                 attempts, report, fs>>

\* what a strategy that ended with `outcome` can leave at the destination:
\* the set of the possible directory contents
WriteFile(f, strategy, outcome) ==
  LET written(st) ==
        [fs EXCEPT ![f] = [state |-> st, url |-> cur, via |-> strategy]]
  IN
  CASE outcome = "success" /\ strategy = "wget" ->
         \* wget -c -O continues the file that is there: a file of another
         \* URL is replaced (no range support), kept as it is (nothing left
         \* to fetch) or extended with the tail of the new body
         IF fs[f].state = "absent" \/ fs[f].url = cur
         THEN {written("complete")}
         ELSE {written("complete"), fs, written("mixed")}
    [] outcome = "success" /\ strategy # "wget" ->
         {written("complete")}
    [] outcome = "interrupted" ->
         \* open(out_path, "wb") truncated the file, some chunks were written
         {written("partial")}
    [] outcome = "nonzero_exit" ->
         \* wget -O opens the output file before it transfers
         IF fs[f].state = "absent" THEN {written("partial")} ELSE {fs}
    [] OTHER -> {fs}

\* a strategy ran and ended with `outcome`: log it, write, and go on
Attempt(strategy, outcome) ==
  LET nxt == NextStep(strategy, outcome) IN
    /\ attempts' = Append(attempts, [strategy |-> strategy, outcome |-> outcome])
    /\ fs' \in WriteFile(out_path(URLS[cur]), strategy, outcome)
    /\ pc' = IF nxt.pc = "raise"
             THEN (IF InDirectMode THEN "direct_except" ELSE "crashed")
             ELSE nxt.pc
    /\ result' = IF nxt.pc = "tdl_return" THEN nxt.ok ELSE result

\* lines 183-192 with 68-74: the gdown branch
Gdown ==
  /\ pc = "gdown"
  /\ IF HAS_GDOWN
     THEN \E outcome \in {"success", "raised"} : Attempt("gdown", outcome)
     ELSE Attempt("gdown", "capability_unavailable")
  /\ UNCHANGED <<args, HAS_GDOWN, hasWget, outdirExists, found, links, fetchFailed,
                 pos, cur, report>>

\* lines 195-199 with 96-103: maybe_wget
Wget ==
  /\ pc = "wget"
  /\ IF hasWget
     THEN \E outcome \in {"success", "nonzero_exit"} : Attempt("wget", outcome)
     ELSE Attempt("wget", "capability_unavailable")
  /\ UNCHANGED <<args, HAS_GDOWN, hasWget, outdirExists, found, links, fetchFailed,
                 pos, cur, report>>

\* lines 202-207 with 76-94: stream_download
Stream ==
  /\ pc = "stream"
  /\ \E outcome \in {"success", "http_error", "interrupted"} :
       Attempt("stream", outcome)
  /\ UNCHANGED <<args, HAS_GDOWN, hasWget, outdirExists, found, links, fetchFailed,
                 pos, cur, report>>

ReportLine(page) ==
  [url |-> cur, page |-> page, ok |-> result, attempts |-> attempts]

\* lines 245-248: print OK/FAILED, sleep, next link
MainReport ==
  /\ pc = "tdl_return"
  /\ ~InDirectMode
  /\ report' = Append(report, ReportLine(Worklist[pos].page))
  /\ pos' = pos + 1
  /\ pc' = "main_loop"
  /\ UNCHANGED <<args, HAS_GDOWN, hasWget, outdirExists, found, links, fetchFailed,
                 cur, attempts, result, fs>>

\* lines 264-267: print OK/FAILED, or the error of an exception
DirectReport ==
  /\ pc \in {"tdl_return", "direct_except"}
  /\ InDirectMode
  /\ report' = IF pc = "tdl_return" THEN Append(report, ReportLine(0)) ELSE report
  /\ pos' = pos + 1
  /\ pc' = "direct_loop"
  /\ UNCHANGED <<args, HAS_GDOWN, hasWget, outdirExists, found, links, fetchFailed,
                 cur, attempts, result, fs>>

Next ==
  \/ Start
  \/ DiscoverPage
  \/ Summary
  \/ MainLoop
  \/ DirectLoop
  \/ TryDownloadBegin
  \/ Gdown
  \/ Wget
  \/ Stream
  \/ MainReport
  \/ DirectReport

Spec == Init /\ [][Next]_vars

\* the process is sequential and every step returns, so it keeps running
\* until it has ended
FairSpec == Spec /\ WF_vars(Next)

\* ============================================================== claims ===
ReportLines == Range(report)

Strategies(line) == {line.attempts[j].strategy : j \in 1..Len(line.attempts)}

\* the strategy's download was started: gdown.download, the wget process or
\* requests.get
Invoked(a) == a.outcome # "capability_unavailable"

DriveWithId(u) == is_google_drive(u) /\ extract_drive_id(u) # None

DriveWithoutId(u) == is_google_drive(u) /\ extract_drive_id(u) = None

\* C1: a drive candidate whose id resolves, with gdown not installed, has the
\* streaming fetch among its attempts when its outcome is reported
C1_GdownUnavailableFallsToStream ==
  \A line \in ReportLines :
    (DriveWithId(URLS[line.url]) /\ ~HAS_GDOWN) => "stream" \in Strategies(line)

\* C2: with --dry-run no strategy is run (gdown, wget or the streaming
\* fetch) and the output directory holds no file, whatever the other options
C2_DryRunNoTransfer ==
  args.dry_run =>
    /\ \A j \in 1..Len(attempts) : ~Invoked(attempts[j])
    /\ \A f \in Filenames : fs[f].state = "absent"

\* C3: in a full run the cascade runs at most once for a URL, also when the
\* URL is listed under two pages
C3_DownloadedOncePerUrl ==
  ~InDirectMode =>
    \A i, j \in 1..Len(report) : report[i].url = report[j].url => i = j

\* C4: a gdown that raised or a wget that exited non-zero is followed by an
\* attempt of a later strategy
C4_TransferErrorContinues ==
  \A line \in ReportLines :
    \A j \in 1..Len(line.attempts) :
      line.attempts[j].outcome \in {"raised", "nonzero_exit"}
        => j < Len(line.attempts)

\* C5: for a drive URL without an extractable id try_download_link returns
\* False at once: no strategy is tried and no file changes, and the line
\* reported for it is FAILED with no attempt
C5_UnresolvedIdFailsImmediately ==
  [][ /\ (pc = "tdl_begin" /\ DriveWithoutId(URLS[cur]))
          => (pc' = "tdl_return" /\ result' = FALSE /\ attempts' = <<>> /\ fs' = fs)
      /\ \A line \in Range(report') :
           DriveWithoutId(URLS[line.url]) => (~line.ok /\ line.attempts = <<>>)
    ]_vars

C5_Witness ==
  /\ pc = "tdl_return"
  /\ DriveWithoutId(URLS[cur])
  /\ attempts = <<>>
  /\ ~result

\* C6: a full run that starts downloading ends with one OK/FAILED line per
\* listed candidate, in order, whatever failed on the way
AllCandidatesReported ==
  /\ pc = "done"
  /\ Len(report) = Len(Worklist)
  /\ \A i \in 1..Len(report) :
       /\ report[i].url = Worklist[i].url
       /\ report[i].page = Worklist[i].page
       /\ report[i].ok \in BOOLEAN

C7_NoOverwriteAcrossCandidates ==
  [][ \A f \in Filenames :
        fs[f].state = "complete" => fs'[f].url = fs[f].url ]_vars

\* C8: the attempts of a candidate follow the order gdown, wget, stream with
\* no strategy twice, and nothing is tried after a success
Rank(strategy) ==
  CASE strategy = "gdown" -> 1 [] strategy = "wget" -> 2 [] strategy = "stream" -> 3

InOrder(a) ==
  \A j, k \in 1..Len(a) :
    j < k => (Rank(a[j].strategy) < Rank(a[k].strategy) /\ a[j].outcome # "success")

C8_AttemptsInFixedOrder ==
  /\ InOrder(attempts)
  /\ \A line \in ReportLines : InOrder(line.attempts)

C8_Witness ==
  \E line \in ReportLines :
    /\ Len(line.attempts) = 2
    /\ line.attempts[1] = [strategy |-> "wget", outcome |-> "nonzero_exit"]
    /\ line.attempts[2] = [strategy |-> "stream", outcome |-> "success"]

\* C9: stream_download never leaves an incomplete file at its destination
C9_NoPartialFileAfterStream ==
  \A f \in Filenames : ~(fs[f].state = "partial" /\ fs[f].via = "stream")

\* C10: a page whose fetch failed has an empty entry, and discovery goes on
\* to an entry for every seed page
C10_FetchFailureDoesNotStopDiscovery ==
  /\ \A p \in fetchFailed : p <= Len(found) /\ found[p] = <<>>
  /\ (~InDirectMode /\ pc \notin {"start", "discover"}) => Len(found) = NumPages

C10_Witness ==
  /\ pc = "summary"
  /\ 1 \in fetchFailed
  /\ found[Len(found)] # <<>>

\* C11: every link of a fetched page whose host is one of the listed
\* cloud-drive or dataset hosts, or that is_google_drive accepts, is among
\* the candidates kept for that page
ListedHosts ==
  {"drive.google.com", "docs.google.com", "kaggle.com", "dropbox.com",
   "pan.baidu.com"}

C11_ListedHostsAreCandidates ==
  \A p \in 1..Len(links) :
    \A l \in Range(links[p]) :
      (URLS[l].host \in ListedHosts \/ is_google_drive(URLS[l]))
        => l \in Range(found[p])

\* C12: the destination handed to a strategy is a non-empty file name
\* directly inside the output directory, and no file exists anywhere else
InsideOutdir(f) == f.dir = <<"outdir">> /\ f.name # <<>>

C12_DestinationInsideOutdir ==
  /\ pc \in {"gdown", "wget", "stream"} => InsideOutdir(out_path(URLS[cur]))
  /\ \A f \in Filenames : fs[f].state # "absent" => InsideOutdir(f)

=============================================================================
